---- MODULE Spec2Model ----
(***************************************************************************)
(* The resilient translation orchestrator of the markdown translator:      *)
(* translateMultiple / translateOne (src/index.ts and the single-file      *)
(* variant src/unnamed/part_000) with statusToText (src/status.ts), and    *)
(* main, which reads a document, takes its code blocks out, splits it,     *)
(* has it translated and writes the result.                                *)
(*                                                                         *)
(* JavaScript runs these async functions on one thread: a function runs    *)
(* without interruption up to its next await.  Every action below is one   *)
(* such uninterrupted run.  A call of translateOne is named by its path in *)
(* the split tree: <<i>> is the i-th top-level fragment, p \o <<j>> the    *)
(* j-th half of the retry-split of p.  A call of translateMultiple is      *)
(* named by the path of the translateOne that made it, <<>> for main's.    *)
(***************************************************************************)
EXTENDS Integers, Sequences, FiniteSets, TLC

VARIABLES
  entry,        \* which entry file runs: "index.ts" or "part_000"
  args,         \* the fragments main passes to translateMultiple
  wording,      \* the message of the service's size and stream failures
  pcMain,       \* main: the await it is at, or "start", "failed", "exit"
  translatedText, \* main: the value (or the error message) of the await
  fragments,    \* translateMultiple frame -> its fragments parameter
  statuses,     \* translateMultiple frame -> its statuses array
  pcMultiple,   \* translateMultiple frame -> "awaitAll", "returned", "thrown"
  pcOne,        \* translateOne frame -> "callApi", "awaitMultiple", "returned", "thrown"
  result,       \* settled frame -> returned string, or message of the thrown Error
  res,          \* translateOne frame -> what callApi resolved with
  sink,         \* path -> what its onStatus callback has received so far
  firstOne,     \* translateOne frame -> the first status it emitted
  firstMultiple, \* translateMultiple frame -> the first two statuses it emitted
  calls,        \* translateOne frame -> the calls of callApi it made
  streamed,     \* translateOne frame -> tokens the service streamed to it
  overtaken,    \* translateMultiple frame -> a fragment settled before an earlier one
  echo,         \* the service answers with its input (TRUE) or with a translation
  fragmentSize, \* main: the budget of the initial split
  disk,         \* file path -> the content of the file
  donesJson,    \* the content of ./dones.json, as the array it encodes
  dones,        \* main of index.ts: the array parsed from ./dones.json
  fileIndex,    \* main: the position of filePath in files
  markdown,     \* main: the document read from filePath
  replacedMd,   \* main: the document with its code blocks replaced
  codeBlocks,   \* main: the code blocks taken out of the document
  writes,       \* file path -> the number of writeFile and appendFile calls on it
  probe,        \* the argument of a function called on its own
  answer        \* << its value >>, or << >> before the call

\* the variables of main around its call of translateMultiple
driver == <<fragmentSize, disk, donesJson, dones, fileIndex, markdown, replacedMd,
            codeBlocks, writes>>

vars == <<entry, args, wording, pcMain, translatedText, fragments, statuses, pcMultiple,
          pcOne, result, res, sink, firstOne, firstMultiple, calls, streamed,
          overtaken, echo, driver, probe, answer>>

(***************************************************************************)
(* Bounds                                                                  *)
(***************************************************************************)
MaxParagraphs == 3   \* paragraphs of the shielded document
MaxFragments == 2    \* fragments of the initial split
MaxTokens == 2       \* tokens the service streams in one run
MaxLength == 3       \* characters of a token or a message given to statusToText
ServiceLimit == 1    \* the size-limited service accepts texts up to this length

(***************************************************************************)
(* Strings                                                                 *)
(***************************************************************************)
Front(p) == SubSeq(p, 1, Len(p) - 1)
Last(p) == p[Len(p)]
Char(s, i) == SubSeq(s, i, i)

\* A value of type string | undefined: <<>> is undefined, <<s>> the string s.
undefined == <<>>
Str(s) == <<s>>

\* String.prototype.replace(/from/g, to) for a one-character pattern
RECURSIVE replaceAll(_, _, _)
replaceAll(s, from, to) ==
  IF Len(s) = 0 THEN ""
  ELSE (IF Char(s, 1) = from THEN to ELSE Char(s, 1))
         \o replaceAll(SubSeq(s, 2, Len(s)), from, to)

\* Array.prototype.join: undefined elements are joined as the empty string
RECURSIVE join(_, _)
join(array, separator) ==
  IF Len(array) = 0 THEN ""
  ELSE LET elem(v) == IF v = undefined THEN "" ELSE v[1]
       IN IF Len(array) = 1 THEN elem(array[1])
          ELSE elem(array[1]) \o separator \o join(Tail(array), separator)

\* String.prototype.split('\n')
RECURSIVE splitLinesFrom(_, _, _, _)
splitLinesFrom(s, i, cur, acc) ==
  IF i > Len(s) THEN Append(acc, cur)
  ELSE IF Char(s, i) = "\n" THEN splitLinesFrom(s, i + 1, "", Append(acc, cur))
  ELSE splitLinesFrom(s, i + 1, cur \o Char(s, i), acc)
splitLines(s) == splitLinesFrom(s, 1, "", <<>>)

LowerOf ==
  [c \in {"A","B","C","D","E","F","G","H","I","J","K","L","M","N","O","P","Q",
          "R","S","T","U","V","W","X","Y","Z"} |->
     CASE c = "A" -> "a" [] c = "B" -> "b" [] c = "C" -> "c" [] c = "D" -> "d"
       [] c = "E" -> "e" [] c = "F" -> "f" [] c = "G" -> "g" [] c = "H" -> "h"
       [] c = "I" -> "i" [] c = "J" -> "j" [] c = "K" -> "k" [] c = "L" -> "l"
       [] c = "M" -> "m" [] c = "N" -> "n" [] c = "O" -> "o" [] c = "P" -> "p"
       [] c = "Q" -> "q" [] c = "R" -> "r" [] c = "S" -> "s" [] c = "T" -> "t"
       [] c = "U" -> "u" [] c = "V" -> "v" [] c = "W" -> "w" [] c = "X" -> "x"
       [] c = "Y" -> "y" [] c = "Z" -> "z"]

RECURSIVE toLowerCase(_)
toLowerCase(s) ==
  IF Len(s) = 0 THEN ""
  ELSE (IF Char(s, 1) \in DOMAIN LowerOf THEN LowerOf[Char(s, 1)] ELSE Char(s, 1))
         \o toLowerCase(SubSeq(s, 2, Len(s)))

\* the literal occurs somewhere in s, letter case ignored (a /literal/i match)
includesIgnoreCase(s, literal) ==
  \E i \in 1..(Len(s) - Len(literal) + 1) :
     toLowerCase(SubSeq(s, i, i + Len(literal) - 1)) = literal

strings(seq) == [i \in 1..Len(seq) |-> Str(seq[i])]

Abs(x) == IF x < 0 THEN -x ELSE x
Min(S) == CHOOSE x \in S : \A y \in S : x <= y

(***************************************************************************)
(* status.ts                                                               *)
(***************************************************************************)
pending(lastToken) == [status |-> "pending", lastToken |-> lastToken]
done(translation) == [status |-> "done", translation |-> translation]
error(message) == [status |-> "error", message |-> message]

\* The four glyphs of statusToText: hourglass, high voltage sign, check mark
\* and cross mark.  The model checker keeps one byte of a character, so the
\* glyphs are written out in ASCII.
hourglass == "(hourglass)"
highVoltage == "(voltage)"
checkMark == "(check)"
crossMark == "(cross)"

\* statusToText with one glyph for every pending status
statusToTextOneGlyph(status) ==
  CASE status.status = "pending" -> Str(hourglass)
    [] status.status = "done" -> Str(checkMark)
    [] status.status = "error" -> Str(crossMark \o " " \o status.message)
    [] OTHER -> undefined

\* statusToText printing the token as it is
statusToTextRaw(status) ==
  CASE status.status = "pending" ->
         IF Len(status.lastToken) = 0 THEN Str(hourglass)
         ELSE Str(highVoltage \o " " \o status.lastToken)
    [] status.status = "done" -> Str(checkMark)
    [] status.status = "error" -> Str(crossMark \o " " \o status.message)
    [] OTHER -> undefined

\* The switch has no default: any other tag falls out of it, and the
\* function returns undefined.
statusToText(status) ==
  CASE status.status = "pending" ->
         IF Len(status.lastToken) = 0 THEN Str(hourglass)
         ELSE Str(highVoltage \o " " \o replaceAll(status.lastToken, "\n", " "))
    [] status.status = "done" -> Str(checkMark)
    [] status.status = "error" -> Str(crossMark \o " " \o status.message)
    [] OTHER -> undefined

(***************************************************************************)
(* md-utils: splitStringAtBlankLines.  A blank-line boundary is an empty   *)
(* line with text on both sides of it; the text is cut there and the empty *)
(* line is dropped, so fragments joined with "\n\n" give the text back.    *)
(* null when the text has no such line.                                    *)
(*   fragmentLength = 0: two fragments, cut at the boundary nearest to the *)
(*     middle line; the first such boundary wins a tie.                    *)
(*   fragmentLength > 0: boundaries are scanned in document order, and the *)
(*     fragment is closed at a boundary when the segment after it would    *)
(*     take the fragment over the budget, counted in characters.           *)
(***************************************************************************)
null == <<>>

\* lines[lo..hi] as one text
linesText(lines, lo, hi) == join(strings(SubSeq(lines, lo, hi)), "\n")

\* the first empty line after line k that has text after it, or the line
\* after the last one
nextBoundary(lines, k) ==
  LET later == {j \in (k + 1)..(Len(lines) - 1) : lines[j] = ""}
  IN IF later = {} THEN Len(lines) + 1 ELSE Min(later)

RECURSIVE fragmentsFrom(_, _, _, _)
fragmentsFrom(lines, lo, k, fragmentLength) ==
  IF k >= Len(lines) THEN << linesText(lines, lo, Len(lines)) >>
  ELSE IF /\ lines[k] = ""
          /\ k > lo
          /\ Len(linesText(lines, lo, nextBoundary(lines, k) - 1)) > fragmentLength
       THEN << linesText(lines, lo, k - 1) >>
              \o fragmentsFrom(lines, k + 1, k + 1, fragmentLength)
       ELSE fragmentsFrom(lines, lo, k + 1, fragmentLength)

splitStringAtBlankLines(input, fragmentLength) ==
  LET lines == splitLines(input)
      blank == {i \in 1..(Len(lines) - 2) : lines[i + 1] = ""}
      halfLength == Len(lines) \div 2
      best == Min({Abs(halfLength - i) : i \in blank})
      at == Min({i \in blank : Abs(halfLength - i) = best})
  IN IF blank = {} THEN null
     ELSE IF fragmentLength = 0
     THEN << linesText(lines, 1, at), linesText(lines, at + 2, Len(lines)) >>
     ELSE fragmentsFrom(lines, 1, 1, fragmentLength)

(***************************************************************************)
(* md-utils: replaceCodeBlocks and restoreCodeBlocks.  A code block runs   *)
(* from a fence to the next fence, both included.  Each block is replaced  *)
(* by a marker made of its id; the ids are consecutive and start at the    *)
(* first number for which no marker occurs in the document.  A string of   *)
(* the model cannot hold a backquote: the fence is written with tildes.    *)
(***************************************************************************)
fence == "~~~"

\* String.prototype.indexOf, counting from 1; 0 when there is no match
indexOf(s, pattern, from) ==
  LET hits == {i \in from..(Len(s) - Len(pattern) + 1) :
                 SubSeq(s, i, i + Len(pattern) - 1) = pattern}
  IN IF hits = {} THEN 0 ELSE Min(hits)

includes(s, pattern) == indexOf(s, pattern, 1) # 0

\* the code blocks of s from position from on, as <<first, last>> positions
RECURSIVE codeRegions(_, _)
codeRegions(s, from) ==
  LET open == indexOf(s, fence, from)
      close == IF open = 0 THEN 0 ELSE indexOf(s, fence, open + Len(fence))
  IN IF close = 0 THEN <<>>
     ELSE << <<open, close + Len(fence) - 1>> >> \o codeRegions(s, close + Len(fence))

digits == "0123456789"
marker(id) == "@" \o Char(digits, id + 1) \o "@"

\* the first id from which count consecutive markers are absent from s
firstFreeId(s, count) ==
  Min({b \in 0..(Len(digits) - count) :
         \A id \in b..(b + count - 1) : ~ includes(s, marker(id))})

\* s with its regions from the k-th on replaced by their markers
RECURSIVE shieldFrom(_, _, _, _, _)
shieldFrom(s, regions, k, from, base) ==
  IF k > Len(regions) THEN SubSeq(s, from, Len(s))
  ELSE SubSeq(s, from, regions[k][1] - 1) \o marker(base + k - 1)
         \o shieldFrom(s, regions, k + 1, regions[k][2] + 1, base)

replaceCodeBlocks(mdContent) ==
  LET regions == codeRegions(mdContent, 1)
      base == firstFreeId(mdContent, Len(regions))
  IN [output |-> shieldFrom(mdContent, regions, 1, 1, base),
      codeBlocks |-> [k \in 1..Len(regions) |->
                        [id |-> base + k - 1,
                         originalText |-> SubSeq(mdContent, regions[k][1],
                                                 regions[k][2])]]]

\* String.prototype.replace for a string pattern: the first match only
replaceFirst(s, pattern, to) ==
  LET at == indexOf(s, pattern, 1)
  IN IF at = 0 THEN s
     ELSE SubSeq(s, 1, at - 1) \o to \o SubSeq(s, at + Len(pattern), Len(s))

RECURSIVE restoreCodeBlocks(_, _)
restoreCodeBlocks(mdContent, blocks) ==
  IF Len(blocks) = 0 THEN mdContent
  ELSE restoreCodeBlocks(replaceFirst(mdContent, marker(blocks[1].id),
                                      blocks[1].originalText),
                         Tail(blocks))

(***************************************************************************)
(* The translation service (callApi): an external collaborator.  During a  *)
(* call it streams tokens to the callback it was given, then it resolves   *)
(* with a translation or with a failure message.                           *)
(***************************************************************************)
Tokens == {"Bon\njour"}
Translation(text) == IF echo THEN text ELSE "#" \o text
SizeMessages == {"Please reduce the length", "Stream Read Error"}
OtherMessages == {"Rate limit reached"}

\* what a call on text can resolve with; wording is the message this
\* service uses for its size and stream failures
Outcomes(text) ==
  {done(Translation(text)), error(wording)} \cup {error(m) : m \in OtherMessages}

\* a service that rejects every text longer than ServiceLimit as too long
LimitedOutcome(text) ==
  IF Len(text) > ServiceLimit THEN error("Please reduce the length")
  ELSE done(Translation(text))

(***************************************************************************)
(* The inputs: a document of k paragraphs, and the ways main's initial     *)
(* split can cut it into fragments at blank lines.                         *)
(***************************************************************************)
Paragraphs == << "a", "bb", "c", "dd", "e" >>
Paragraph(i) == Paragraphs[i]
Chunk(lo, hi) == join([i \in 1..(hi - lo + 1) |-> Str(Paragraph(lo + i - 1))], "\n\n")

RECURSIVE chunks(_, _, _)
chunks(lo, k, cuts) ==
  IF cuts = {} THEN << Chunk(lo, k) >>
  ELSE LET c == Min(cuts) IN << Chunk(lo, c) >> \o chunks(c + 1, k, cuts \ {c})

InitialSplits ==
  UNION { { chunks(1, k, cuts) :
              cuts \in {C \in SUBSET (1..(k - 1)) : Cardinality(C) + 1 <= MaxFragments} } :
          k \in 1..MaxParagraphs }

(***************************************************************************)
(* The orchestrator.  A handler is a function from the state it finds to   *)
(* the state it leaves: mem is the record of the variables it writes.      *)
(***************************************************************************)
Mem == [fragments |-> fragments, statuses |-> statuses, pcMultiple |-> pcMultiple,
        pcOne |-> pcOne, sink |-> sink, firstOne |-> firstOne,
        firstMultiple |-> firstMultiple, calls |-> calls, streamed |-> streamed,
        overtaken |-> overtaken]

Commit(mem) ==
  /\ fragments' = mem.fragments
  /\ statuses' = mem.statuses
  /\ pcMultiple' = mem.pcMultiple
  /\ pcOne' = mem.pcOne
  /\ sink' = mem.sink
  /\ firstOne' = mem.firstOne
  /\ firstMultiple' = mem.firstMultiple
  /\ calls' = mem.calls
  /\ streamed' = mem.streamed
  /\ overtaken' = mem.overtaken

\* What a callback has received: how many statuses, how many of them
\* pending and how many done, and the last one.
silent == [count |-> 0, pendings |-> 0, dones |-> 0, last |-> [status |-> "none"]]

receive(log, status) ==
  [count |-> log.count + 1,
   pendings |-> log.pendings + (IF status.status = "pending" THEN 1 ELSE 0),
   dones |-> log.dones + (IF status.status = "done" THEN 1 ELSE 0),
   last |-> status]

\* the fragment a translateOne frame was called with
TextOf(mem, n) == mem.fragments[Front(n)][Last(n)]

\* index.ts fills the statuses array with { status: 'waiting' };
\* part_000 fills it with pending('')
newSlot == IF entry = "index.ts" THEN [status |-> "waiting"] ELSE pending("")

\* the first status of translateOne: { status: 'waiting' } in index.ts,
\* pending('') in part_000
firstStatus == IF entry = "index.ts" THEN [status |-> "waiting"] ELSE pending("")

\* `[${statuses.map(statusToText).join(', ')}]`
composite(slots) ==
  "[" \o join([i \in 1..Len(slots) |-> statusToText(slots[i])], ", ") \o "]"

\* The callback of path p receives a status.  The callback of <<>> is
\* main's (it keeps the status and prints it); the callback of g \o <<index>>
\* is handleNewStatus(index) of the translateMultiple frame g, which stores
\* the status in its slot and reports the composite to its own onStatus,
\* the callback of path g.
RECURSIVE onStatus(_, _, _)

\* handleNewStatus passing a done status on as it is
handleNewStatusForward(mem, g, index, status) ==
  LET stored == [mem EXCEPT !.statuses[g][index] = status]
  IN onStatus(stored, g, IF status.status = "done" THEN status
                         ELSE pending(composite(stored.statuses[g])))

\* handleNewStatus reporting the slots as they were before the update
handleNewStatusStale(mem, g, index, status) ==
  LET stored == [mem EXCEPT !.statuses[g][index] = status]
  IN onStatus(stored, g, pending(composite(mem.statuses[g])))

\* handleNewStatus leaving a done status out
handleNewStatusPendingOnly(mem, g, index, status) ==
  LET stored == [mem EXCEPT !.statuses[g][index] = status]
  IN IF status.status = "done" THEN mem
     ELSE onStatus(stored, g, pending(composite(stored.statuses[g])))

\* handleNewStatus with the index of the last fragment, whatever the
\* fragment it was made for
handleNewStatusLastIndex(mem, g, index, status) ==
  LET stored == [mem EXCEPT !.statuses[g][Len(mem.statuses[g])] = status]
  IN onStatus(stored, g, pending(composite(stored.statuses[g])))

handleNewStatus(mem, g, index, status) ==
  LET stored == [mem EXCEPT !.statuses[g][index] = status]
  IN onStatus(stored, g, pending(composite(stored.statuses[g])))

onStatus(mem, p, status) ==
  LET opening == p \in DOMAIN mem.firstMultiple /\ Len(mem.firstMultiple[p]) < 2
      received == [mem EXCEPT !.sink[p] = receive(@, status),
                              !.firstMultiple =
                                 IF opening THEN [@ EXCEPT ![p] = Append(@, status)]
                                 ELSE @]
  IN IF p = <<>> THEN received
     ELSE handleNewStatus(received, Front(p), Last(p), status)

\* translateOne calling callApi a second time on the same text
translateOneCallTwice(mem, n) ==
  LET announced == onStatus(mem, n, firstStatus)
      call == [text |-> TextOf(mem, n), emitted |-> announced.sink[n].count]
  IN [announced EXCEPT
        !.firstOne = (n :> firstStatus) @@ @,
        !.calls = (n :> << call, call >>) @@ @,
        !.pcOne = (n :> "callApi") @@ @,
        !.streamed = (n :> <<>>) @@ @]

\* translateOne up to its await: the first status, then the call of callApi
translateOneCall(mem, n) ==
  LET announced == onStatus(mem, n, firstStatus)
  IN [announced EXCEPT
        !.firstOne = (n :> firstStatus) @@ @,
        !.calls = (n :> << [text |-> TextOf(mem, n),
                            emitted |-> announced.sink[n].count] >>) @@ @,
        !.pcOne = (n :> "callApi") @@ @,
        !.streamed = (n :> <<>>) @@ @]

RECURSIVE launch(_, _, _)

\* translateOne started for the first fragment only
launchFirst(mem, g, index) ==
  IF index > 1 THEN mem
  ELSE translateOneCall(mem, g \o <<index>>)

\* fragments.map: translateOne is called for every fragment, in index order
launch(mem, g, index) ==
  IF index > Len(mem.fragments[g]) THEN mem
  ELSE launch(translateOneCall(mem, g \o <<index>>), g, index + 1)

\* translateMultiple up to its await: the slots, the first pending status,
\* then translateOne for every fragment in index order
translateMultipleCall(mem, g, frags) ==
  LET created == [mem EXCEPT
                    !.fragments = (g :> frags) @@ @,
                    !.statuses = (g :> [i \in 1..Len(frags) |-> newSlot]) @@ @,
                    !.pcMultiple = (g :> "awaitAll") @@ @,
                    !.overtaken = (g :> FALSE) @@ @,
                    !.firstMultiple = (g :> <<>>) @@ @,
                    !.sink = [p \in {g \o <<i>> : i \in 1..Len(frags)} |-> silent] @@ @]
      announced == onStatus(created, g, pending(""))
  IN launch(announced, g, 1)

\* the match without the i flag
matchesCaseSensitive(message) ==
  \/ \E i \in 1..(Len(message) - 16) : SubSeq(message, i, i + 16) = "reduce the length"
  \/ \E i \in 1..(Len(message) - 16) : SubSeq(message, i, i + 16) = "stream read error"

\* res.message.match(/reduce the length|stream read error/i)
matchesSizeOrStream(message) ==
  \/ includesIgnoreCase(message, "reduce the length")
  \/ includesIgnoreCase(message, "stream read error")

\* the promise of translateOne n settles ("returned" or "thrown"); the
\* frame of its siblings notes whether an earlier sibling is still running
settle(mem, n, how) ==
  LET g == Front(n)
      early == \E j \in 1..(Last(n) - 1) :
                  mem.pcOne[g \o <<j>>] \notin {"returned", "thrown"}
  IN [mem EXCEPT !.pcOne[n] = how,
                 !.overtaken[g] = @ \/ early]

RECURSIVE sumOver(_, _)
sumOver(f, S) ==
  IF S = {} THEN 0
  ELSE LET x == CHOOSE y \in S : TRUE IN f[x] + sumOver(f, S \ {x})

\* the number of tokens streamed so far, over all calls
Streamed == sumOver([n \in DOMAIN streamed |-> Len(streamed[n])], DOMAIN streamed)

(***************************************************************************)
(* Actions                                                                 *)
(***************************************************************************)
\* no call of translateMultiple or translateOne has been made
Fresh == [fragments |-> <<>>, statuses |-> <<>>, pcMultiple |-> <<>>, pcOne |-> <<>>,
          sink |-> (<<>> :> silent), firstOne |-> <<>>, firstMultiple |-> <<>>,
          calls |-> <<>>, streamed |-> <<>>, overtaken |-> <<>>]

\* main is at its call of translateMultiple, with any fragments
Init ==
  /\ entry \in {"index.ts", "part_000"}
  /\ args \in InitialSplits
  /\ wording \in SizeMessages
  /\ echo = FALSE
  /\ probe = <<>>
  /\ answer = <<>>
  /\ pcMain = "start"
  /\ fragmentSize = 2048
  /\ disk = <<>>
  /\ donesJson = "[]"
  /\ dones = <<>>
  /\ fileIndex = 1
  /\ markdown = ""
  /\ replacedMd = ""
  /\ codeBlocks = <<>>
  /\ writes = <<>>
  /\ translatedText = ""
  /\ fragments = <<>>
  /\ statuses = <<>>
  /\ pcMultiple = <<>>
  /\ pcOne = <<>>
  /\ result = <<>>
  /\ res = <<>>
  /\ sink = (<<>> :> silent)
  /\ firstOne = <<>>
  /\ firstMultiple = <<>>
  /\ calls = <<>>
  /\ streamed = <<>>
  /\ overtaken = <<>>

\* main calls translateMultiple on the fragments of the initial split, with
\* a callback of its own; the calls made for an earlier document are over
MainTranslate ==
  /\ pcMain = "start"
  /\ args # null
  /\ pcMain' = "awaitMultiple"
  /\ Commit(translateMultipleCall(Fresh, <<>>, args))
  /\ result' = <<>>
  /\ res' = <<>>
  /\ UNCHANGED <<probe, answer, entry, args, wording, echo, driver, translatedText>>

\* the service streams one token to the callback of a pending call
ApiToken(n, token) ==
  /\ pcOne[n] = "callApi"
  /\ Streamed < MaxTokens
  /\ Commit([onStatus(Mem, n, pending(token)) EXCEPT
               !.streamed[n] = Append(@, token)])
  /\ UNCHANGED <<probe, answer, entry, args, wording, echo, driver, pcMain, translatedText, result, res>>

\* translateOne retrying the text it failed on, through translateMultiple
translateOneStepSameText(text, outcome) ==
  IF outcome.status = "error" /\ matchesSizeOrStream(outcome.message)
  THEN [do |-> "translateMultiple", value |-> << text >>]
  ELSE IF outcome.status = "error"
  THEN [do |-> "throw", value |-> outcome.message]
  ELSE [do |-> "return", value |-> outcome.translation]

\* translateOne without the check of splitResult === null
translateOneStepNoNullCheck(text, outcome) ==
  LET splitResult == splitStringAtBlankLines(text, 0)
  IN IF outcome.status = "error" /\ matchesSizeOrStream(outcome.message)
     THEN IF splitResult = null
          THEN [do |-> "throw", value |-> outcome.message]
          ELSE [do |-> "translateMultiple", value |-> splitResult]
     ELSE IF outcome.status = "error"
     THEN [do |-> "throw", value |-> outcome.message]
     ELSE [do |-> "return", value |-> outcome.translation]

\* translateOne retrying after every failure, whatever its message
translateOneStepRetryAll(text, outcome) ==
  LET splitResult == splitStringAtBlankLines(text, 0)
  IN IF outcome.status = "error"
     THEN IF splitResult = null
          THEN [do |-> "return", value |-> text]
          ELSE [do |-> "translateMultiple", value |-> splitResult]
     ELSE [do |-> "return", value |-> outcome.translation]

\* translateOne retrying the two halves in the other order
translateOneStepSwapped(text, outcome) ==
  LET splitResult == splitStringAtBlankLines(text, 0)
  IN IF outcome.status = "error" /\ matchesSizeOrStream(outcome.message)
     THEN IF splitResult = null
          THEN [do |-> "return", value |-> text]
          ELSE [do |-> "translateMultiple",
                value |-> << splitResult[2], splitResult[1] >>]
     ELSE IF outcome.status = "error"
     THEN [do |-> "throw", value |-> outcome.message]
     ELSE [do |-> "return", value |-> outcome.translation]

\* translateOne from its await on: what it does with what callApi resolved with
translateOneStep(text, outcome) ==
  LET splitResult == splitStringAtBlankLines(text, 0)
  IN IF outcome.status = "error" /\ matchesSizeOrStream(outcome.message)
     THEN IF splitResult = null
          THEN [do |-> "return", value |-> text]
          ELSE [do |-> "translateMultiple", value |-> splitResult]
     ELSE IF outcome.status = "error"
     THEN [do |-> "throw", value |-> outcome.message]
     ELSE [do |-> "return", value |-> outcome.translation]

\* callApi resolves with outcome, and translateOne runs from its await on
TranslateOneResume(n, outcome) ==
  /\ pcOne[n] = "callApi"
  /\ res' = (n :> outcome) @@ res
  /\ LET step == translateOneStep(TextOf(Mem, n), outcome)
     IN CASE step.do = "return" ->
               /\ Commit(settle(Mem, n, "returned"))
               /\ result' = (n :> step.value) @@ result
          [] step.do = "throw" ->
               /\ Commit(settle(Mem, n, "thrown"))
               /\ result' = (n :> step.value) @@ result
          [] step.do = "translateMultiple" ->
               /\ Commit([translateMultipleCall(Mem, n, step.value)
                            EXCEPT !.pcOne[n] = "awaitMultiple"])
               /\ UNCHANGED result
  /\ UNCHANGED <<probe, answer, entry, args, wording, echo, driver, pcMain, translatedText>>

Children(g) == {g \o <<i>> : i \in 1..Len(fragments[g])}

\* Promise.allSettled in the place of Promise.all
allSettled(g) == \A c \in Children(g) : pcOne[c] \in {"returned", "thrown"}

\* Promise.all is fulfilled when every promise it was given is fulfilled
allFulfilled(g) == \A c \in Children(g) : pcOne[c] = "returned"

\* the results joined last fragment first
joinResultsReversed(g) ==
  LET N == Len(fragments[g])
  IN join([i \in 1..N |-> Str(result[g \o <<N + 1 - i>>])], "\n\n")

\* the results joined with one line end
joinResultsOneLineEnd(g) ==
  join([i \in 1..Len(fragments[g]) |-> Str(result[g \o <<i>>])], "\n")

\* results.join('\n\n')
joinResults(g) ==
  join([i \in 1..Len(fragments[g]) |-> Str(result[g \o <<i>>])], "\n\n")

\* Promise.race in the place of Promise.all: translateMultiple goes on with
\* the result of the first fragment as soon as that fragment has returned
TranslateMultipleResumeRace(g) ==
  /\ pcMultiple[g] = "awaitAll"
  /\ pcOne[g \o <<1>>] = "returned"
  /\ LET finalResult == result[g \o <<1>>]
         reported == [onStatus(Mem, g, done(finalResult))
                        EXCEPT !.pcMultiple[g] = "returned"]
     IN /\ result' = (g :> finalResult) @@ result
        /\ IF g = <<>>
           THEN /\ Commit(reported)
                /\ pcMain' = "translated"
                /\ translatedText' = finalResult
           ELSE /\ Commit(settle(reported, g, "returned"))
                /\ UNCHANGED <<pcMain, translatedText>>
  /\ UNCHANGED <<probe, answer, entry, args, wording, echo, driver, res>>

\* Promise.all is fulfilled: translateMultiple joins the results, reports
\* done and returns; the awaiting translateOne (or main) gets the text
TranslateMultipleResume(g) ==
  /\ pcMultiple[g] = "awaitAll"
  /\ allFulfilled(g)
  /\ LET finalResult == joinResults(g)
         reported == [onStatus(Mem, g, done(finalResult))
                        EXCEPT !.pcMultiple[g] = "returned"]
     IN /\ result' = (g :> finalResult) @@ result
        /\ IF g = <<>>
           THEN /\ Commit(reported)
                /\ pcMain' = "translated"
                /\ translatedText' = finalResult
           ELSE /\ Commit(settle(reported, g, "returned"))
                /\ UNCHANGED <<pcMain, translatedText>>
  /\ UNCHANGED <<probe, answer, entry, args, wording, echo, driver, res>>

\* Promise.all is rejected by a child that threw: translateMultiple throws
\* that error at its await, and so does the awaiting translateOne (or main)
TranslateMultipleReject(g, c) ==
  /\ pcMultiple[g] = "awaitAll"
  /\ c \in Children(g)
  /\ pcOne[c] = "thrown"
  /\ result' = (g :> result[c]) @@ result
  /\ LET rejected == [Mem EXCEPT !.pcMultiple[g] = "thrown"]
     IN IF g = <<>>
        THEN /\ Commit(rejected)
             /\ pcMain' = "failed"
             /\ translatedText' = result[c]
        ELSE /\ Commit(settle(rejected, g, "thrown"))
             /\ UNCHANGED <<pcMain, translatedText>>
  /\ UNCHANGED <<probe, answer, entry, args, wording, echo, driver, res>>

Next ==
  \/ MainTranslate
  \/ \E n \in DOMAIN pcOne : \E token \in Tokens : ApiToken(n, token)
  \/ \E n \in DOMAIN pcOne : \E outcome \in Outcomes(TextOf(Mem, n)) :
        TranslateOneResume(n, outcome)
  \/ \E g \in DOMAIN pcMultiple : TranslateMultipleResume(g)
  \/ \E g \in DOMAIN pcMultiple : \E c \in DOMAIN pcOne : TranslateMultipleReject(g, c)

Spec == Init /\ [][Next]_vars

\* The same program with the size-limited service.  The event loop runs
\* every continuation that is ready and the service settles every call.
NextLimited ==
  \/ MainTranslate
  \/ \E n \in DOMAIN pcOne : \E token \in Tokens : ApiToken(n, token)
  \/ \E n \in DOMAIN pcOne : TranslateOneResume(n, LimitedOutcome(TextOf(Mem, n)))
  \/ \E g \in DOMAIN pcMultiple : TranslateMultipleResume(g)

SpecLimited == Init /\ [][NextLimited]_vars /\ WF_vars(NextLimited)

(***************************************************************************)
(* The same program with a service that streams no token and answers a     *)
(* text with the text, or fails on it with a size message, on one fragment *)
(* of any lines.                                                           *)
(***************************************************************************)
\* the texts of at most n lines, each line empty or a letter
RECURSIVE LineTexts(_)
LineTexts(n) ==
  IF n = 1 THEN {"", "a"}
  ELSE LineTexts(n - 1) \cup {t \o "\n" \o line : t \in LineTexts(n - 1), line \in {"", "a"}}

EchoOutcomes(text) == {done(Translation(text)), error(wording)}

InitEcho ==
  /\ entry \in {"index.ts", "part_000"}
  /\ args \in {<< t >> : t \in LineTexts(MaxParagraphs + 2)}
  /\ wording = "Stream Read Error"
  /\ echo = TRUE
  /\ probe = <<>>
  /\ answer = <<>>
  /\ pcMain = "start"
  /\ fragmentSize = 2048
  /\ disk = <<>>
  /\ donesJson = "[]"
  /\ dones = <<>>
  /\ fileIndex = 1
  /\ markdown = ""
  /\ replacedMd = ""
  /\ codeBlocks = <<>>
  /\ writes = <<>>
  /\ translatedText = ""
  /\ fragments = <<>>
  /\ statuses = <<>>
  /\ pcMultiple = <<>>
  /\ pcOne = <<>>
  /\ sink = (<<>> :> silent)
  /\ firstOne = <<>>
  /\ firstMultiple = <<>>
  /\ calls = <<>>
  /\ streamed = <<>>
  /\ overtaken = <<>>
  /\ result = <<>>
  /\ res = <<>>

NextEcho ==
  \/ MainTranslate
  \/ \E n \in DOMAIN pcOne : \E outcome \in EchoOutcomes(TextOf(Mem, n)) :
        TranslateOneResume(n, outcome)
  \/ \E g \in DOMAIN pcMultiple : TranslateMultipleResume(g)

SpecEcho == InitEcho /\ [][NextEcho]_vars

(***************************************************************************)
(* main, around its call of translateMultiple.  index.ts goes through a    *)
(* list of files written in the code and keeps the files it has done in    *)
(* ./dones.json; part_000 translates the one file of its arguments.        *)
(***************************************************************************)
\* the list of index.ts, cut to two paths; part_000 is given the first
files == IF entry = "index.ts" THEN << "one.md", "two.md" >> ELSE << "one.md" >>
filePath == files[fileIndex]

\* JSON.stringify and JSON.parse, for an array of strings that need no escape
JSONstringify(array) ==
  "[" \o join([i \in 1..Len(array) |-> Str("\"" \o array[i] \o "\"")], ",") \o "]"

RECURSIVE parseElements(_)
parseElements(text) ==
  LET comma == indexOf(text, ",", 1)
      unquote(t) == SubSeq(t, 2, Len(t) - 1)
  IN IF comma = 0 THEN << unquote(text) >>
     ELSE << unquote(SubSeq(text, 1, comma - 1)) >>
            \o parseElements(SubSeq(text, comma + 1, Len(text)))

JSONparse(text) ==
  IF Len(text) = 2 THEN <<>> ELSE parseElements(SubSeq(text, 2, Len(text) - 1))

\* Array.prototype.includes
arrayIncludes(array, value) == \E i \in 1..Len(array) : array[i] = value

\* The documents: prose and a code block with an empty line in it; a code
\* block alone; two code blocks; prose that reads like a marker, and a code
\* block.
Documents ==
  { "a\n\n~~~\nx\n\ny\n~~~",
    "~~~\nx\n~~~",
    "~~~\nx\n~~~\n\n~~~\ny\n~~~",
    "@0@\n\n~~~\nx\n~~~" }

\* the budgets of the initial split: the default of main, and a small one
FragmentSizes == {2048, 1}

\* what ./dones.json can hold when main starts
Ledgers == { <<>>, << "one.md" >>, << "two.md" >> }

\* main has been called
InitMain ==
  /\ entry \in {"index.ts", "part_000"}
  /\ args = null
  /\ wording = "Please reduce the length"
  /\ echo \in BOOLEAN
  /\ probe = <<>>
  /\ answer = <<>>
  /\ pcMain = "main"
  /\ fragmentSize \in FragmentSizes
  /\ disk \in [{files[i] : i \in 1..Len(files)} -> Documents]
  /\ donesJson \in {JSONstringify(l) : l \in IF entry = "index.ts" THEN Ledgers ELSE {<<>>}}
  /\ dones = <<>>
  /\ fileIndex = 1
  /\ markdown = ""
  /\ replacedMd = ""
  /\ codeBlocks = <<>>
  /\ writes = [f \in {files[i] : i \in 1..Len(files)} |-> 0]
  /\ translatedText = ""
  /\ fragments = <<>>
  /\ statuses = <<>>
  /\ pcMultiple = <<>>
  /\ pcOne = <<>>
  /\ sink = (<<>> :> silent)
  /\ firstOne = <<>>
  /\ firstMultiple = <<>>
  /\ calls = <<>>
  /\ streamed = <<>>
  /\ overtaken = <<>>
  /\ result = <<>>
  /\ res = <<>>

orchestrator == <<fragments, statuses, pcMultiple, pcOne, result, res, sink, firstOne,
                  firstMultiple, calls, streamed, overtaken>>

\* index.ts reads ./dones.json and parses it; part_000 has no such file
MainStart ==
  /\ pcMain = "main"
  /\ pcMain' = "loop"
  /\ dones' = IF entry = "index.ts" THEN JSONparse(donesJson) ELSE dones
  /\ UNCHANGED <<probe, answer, entry, args, wording, echo, translatedText, orchestrator, fragmentSize,
                 disk, donesJson, fileIndex, markdown, replacedMd, codeBlocks, writes>>

\* the step of the loop for a file that dones includes: continue
MainSkip ==
  /\ pcMain = "loop"
  /\ arrayIncludes(dones, filePath)
  /\ fileIndex' = fileIndex + 1
  /\ pcMain' = IF fileIndex < Len(files) THEN "loop" ELSE "exit"
  /\ UNCHANGED <<probe, answer, entry, args, wording, echo, translatedText, orchestrator, fragmentSize,
                 disk, donesJson, dones, markdown, replacedMd, codeBlocks, writes>>

\* main reads the file, takes its code blocks out and splits the rest
MainRead ==
  /\ pcMain = "loop"
  /\ ~ arrayIncludes(dones, filePath)
  /\ LET replaced == replaceCodeBlocks(disk[filePath])
     IN /\ markdown' = disk[filePath]
        /\ replacedMd' = replaced.output
        /\ codeBlocks' = replaced.codeBlocks
        /\ args' = splitStringAtBlankLines(replaced.output, fragmentSize)
  /\ pcMain' = "start"
  /\ UNCHANGED <<probe, answer, entry, wording, echo, translatedText, orchestrator, fragmentSize,
                 disk, donesJson, dones, fileIndex, writes>>

\* translateMultiple is given null: its fragments.length throws a
\* TypeError, and so does main at its await
MainTranslateNull ==
  /\ pcMain = "start"
  /\ args = null
  /\ pcMain' = "failed"
  /\ translatedText' = "TypeError: Cannot read properties of null (reading 'length')"
  /\ UNCHANGED <<probe, answer, entry, args, wording, echo, orchestrator, driver>>

\* the result without the code blocks put back
finalResultShielded ==
  translatedText \o (IF entry = "index.ts" THEN "\n\n\n" ELSE "\n")

\* restoreCodeBlocks(translatedText, codeBlocks) + '\n\n\n' in index.ts,
\* + '\n' in part_000
finalResult ==
  restoreCodeBlocks(translatedText, codeBlocks)
    \o (IF entry = "index.ts" THEN "\n\n\n" ELSE "\n")

\* main writing the file also when translateMultiple has thrown
MainWriteAnyway ==
  /\ pcMain \in {"translated", "failed"}
  /\ disk' = [disk EXCEPT ![filePath] = finalResult]
  /\ writes' = [writes EXCEPT ![filePath] = @ + 1]
  /\ pcMain' = IF entry = "index.ts" THEN "appendFile" ELSE "exit"
  /\ UNCHANGED <<probe, answer, entry, args, wording, echo, translatedText, orchestrator, fragmentSize,
                 donesJson, dones, fileIndex, markdown, replacedMd, codeBlocks>>

\* main writes the result to the file
MainWrite ==
  /\ pcMain = "translated"
  /\ disk' = [disk EXCEPT ![filePath] = finalResult]
  /\ writes' = [writes EXCEPT ![filePath] = @ + 1]
  /\ pcMain' = IF entry = "index.ts" THEN "appendFile" ELSE "exit"
  /\ UNCHANGED <<probe, answer, entry, args, wording, echo, translatedText, orchestrator, fragmentSize,
                 donesJson, dones, fileIndex, markdown, replacedMd, codeBlocks>>

\* index.ts appends the document it read to the file, and pushes the path
\* to dones
MainAppend ==
  /\ pcMain = "appendFile"
  /\ disk' = [disk EXCEPT ![filePath] = @ \o markdown]
  /\ writes' = [writes EXCEPT ![filePath] = @ + 1]
  /\ dones' = Append(dones, filePath)
  /\ pcMain' = "writeDones"
  /\ UNCHANGED <<probe, answer, entry, args, wording, echo, translatedText, orchestrator, fragmentSize,
                 donesJson, fileIndex, markdown, replacedMd, codeBlocks>>

\* index.ts writing the one path it has just done to ./dones.json
MainSaveDonesAlone ==
  /\ pcMain = "writeDones"
  /\ donesJson' = JSONstringify(<< filePath >>)
  /\ fileIndex' = fileIndex + 1
  /\ pcMain' = IF fileIndex < Len(files) THEN "loop" ELSE "exit"
  /\ UNCHANGED <<probe, answer, entry, args, wording, echo, translatedText, orchestrator, fragmentSize,
                 disk, dones, markdown, replacedMd, codeBlocks, writes>>

\* index.ts writes dones to ./dones.json and goes to the next file
MainSaveDones ==
  /\ pcMain = "writeDones"
  /\ donesJson' = JSONstringify(dones)
  /\ fileIndex' = fileIndex + 1
  /\ pcMain' = IF fileIndex < Len(files) THEN "loop" ELSE "exit"
  /\ UNCHANGED <<probe, answer, entry, args, wording, echo, translatedText, orchestrator, fragmentSize,
                 disk, dones, markdown, replacedMd, codeBlocks, writes>>

NextMain ==
  \/ MainStart
  \/ MainSkip
  \/ MainRead
  \/ MainTranslate
  \/ MainTranslateNull
  \/ \E n \in DOMAIN pcOne : \E token \in Tokens : ApiToken(n, token)
  \/ \E n \in DOMAIN pcOne : \E outcome \in Outcomes(TextOf(Mem, n)) :
        TranslateOneResume(n, outcome)
  \/ \E g \in DOMAIN pcMultiple : TranslateMultipleResume(g)
  \/ \E g \in DOMAIN pcMultiple : \E c \in DOMAIN pcOne : TranslateMultipleReject(g, c)
  \/ MainWrite
  \/ MainAppend
  \/ MainSaveDones

SpecMain == InitMain /\ [][NextMain]_vars

(***************************************************************************)
(* statusToText called on its own, on any status of the three variants     *)
(***************************************************************************)
Alphabet == {"x", " ", "\n"}

\* the strings of at most n characters
RECURSIVE TextsUpTo(_)
TextsUpTo(n) ==
  IF n = 0 THEN {""}
  ELSE TextsUpTo(n - 1) \cup {t \o c : t \in TextsUpTo(n - 1), c \in Alphabet}

Statuses ==
  {pending(t) : t \in TextsUpTo(MaxLength)}
    \cup {done(t) : t \in TextsUpTo(MaxLength)}
    \cup {error(m) : m \in TextsUpTo(MaxLength)}

InitRender ==
  /\ probe \in Statuses
  /\ answer = <<>>
  /\ entry = "index.ts"
  /\ args = null
  /\ wording = "Please reduce the length"
  /\ echo = FALSE
  /\ pcMain = "exit"
  /\ fragmentSize = 2048
  /\ disk = <<>>
  /\ donesJson = "[]"
  /\ dones = <<>>
  /\ fileIndex = 1
  /\ markdown = ""
  /\ replacedMd = ""
  /\ codeBlocks = <<>>
  /\ writes = <<>>
  /\ translatedText = ""
  /\ fragments = <<>>
  /\ statuses = <<>>
  /\ pcMultiple = <<>>
  /\ pcOne = <<>>
  /\ sink = (<<>> :> silent)
  /\ firstOne = <<>>
  /\ firstMultiple = <<>>
  /\ calls = <<>>
  /\ streamed = <<>>
  /\ overtaken = <<>>
  /\ result = <<>>
  /\ res = <<>>

\* statusToText(probe) is called and returns
Render ==
  /\ answer = <<>>
  /\ answer' = << statusToText(probe) >>
  /\ UNCHANGED <<probe, entry, args, wording, echo, pcMain, translatedText, orchestrator,
                 driver>>

NextRender == Render

SpecRender == InitRender /\ [][NextRender]_vars

(***************************************************************************)
(* Properties                                                              *)
(***************************************************************************)
Frames == DOMAIN pcMultiple   \* the calls of translateMultiple made so far
Ones == DOMAIN pcOne          \* the calls of translateOne made so far

BlankLineFree(text) == \A i \in 1..(Len(text) - 1) : SubSeq(text, i, i + 1) # "\n\n"

\* r[1] + "\n\n" + ... + r[k] over the outcomes of the first k fragments of g
RECURSIVE Glued(_, _)
Glued(g, k) ==
  IF k = 1 THEN result[g \o <<1>>]
  ELSE Glued(g, k - 1) \o "\n\n" \o result[g \o <<k>>]

\* C1: a translateMultiple call that has returned has returned the outcomes
\* of its fragments glued with blank lines in index order, whatever the
\* order in which the fragments settled.
C1_PositionalJoin ==
  \A g \in Frames : pcMultiple[g] = "returned" =>
     /\ result[g] = Glued(g, Len(fragments[g]))
     /\ g = <<>> => translatedText = result[g]

\* a call has returned whose later fragment settled before an earlier one
C1_Witness ==
  \E g \in Frames :
     /\ pcMultiple[g] = "returned"
     /\ overtaken[g]
     /\ Len(fragments[g]) = 2
     /\ result[g \o <<1>>] # result[g \o <<2>>]

\* C2: a failure with a size or stream message never leaves translateOne as
\* an error: the call returns its own text when the text cannot be split,
\* and otherwise ends as the translateMultiple call on the two halves ends;
\* no translateOne call ever throws a size or stream message.
C2_SizeFailureRecovered ==
  /\ \A n \in DOMAIN res :
        (res[n].status = "error" /\ res[n].message \in SizeMessages) =>
           /\ pcOne[n] = "returned" =>
                 IF BlankLineFree(TextOf(Mem, n))
                 THEN result[n] = TextOf(Mem, n)
                 ELSE /\ n \in Frames
                      /\ pcMultiple[n] = "returned"
                      /\ Len(fragments[n]) = 2
                      /\ result[n] = Glued(n, 2)
           /\ pcOne[n] = "thrown" =>
                 /\ n \in Frames
                 /\ pcMultiple[n] = "thrown"
                 /\ \E c \in Children(n) : pcOne[c] = "thrown" /\ result[c] = result[n]
           /\ pcOne[n] # "callApi"
  /\ \A n \in Ones : pcOne[n] = "thrown" => result[n] \in OtherMessages

\* a call whose service call failed with "Stream Read Error" has returned
\* what the translateMultiple call on its halves returned
C2_Witness ==
  \E n \in DOMAIN res :
     /\ res[n] = error("Stream Read Error")
     /\ n \in Frames
     /\ pcOne[n] = "returned"

\* the same glue with text standing at place index
RECURSIVE GluedWith(_, _, _, _)
GluedWith(g, k, index, text) ==
  LET piece == IF k = index THEN text ELSE result[g \o <<k>>]
  IN IF k = 1 THEN piece ELSE GluedWith(g, k - 1, index, text) \o "\n\n" \o piece

\* C3: after a size failure on a text that cannot be split, translateOne has
\* returned the text itself, has called the service once and has started no
\* translateMultiple; the text stands at the fragment's place in the text
\* the enclosing translateMultiple returns.
C3_UnsplittableReturnsText ==
  \A n \in DOMAIN res :
     ( /\ res[n].status = "error"
       /\ res[n].message \in SizeMessages
       /\ splitStringAtBlankLines(TextOf(Mem, n), 0) = null ) =>
        /\ pcOne[n] = "returned"
        /\ result[n] = TextOf(Mem, n)
        /\ Len(calls[n]) = 1
        /\ n \notin Frames
        /\ pcMultiple[Front(n)] = "returned" =>
              result[Front(n)] = GluedWith(Front(n), Len(fragments[Front(n)]),
                                           Last(n), TextOf(Mem, n))

\* the second fragment of two could not be split after a size failure, and
\* the translateMultiple call over the two has returned
C3_Witness ==
  \E n \in DOMAIN res :
     /\ res[n].status = "error"
     /\ res[n].message \in SizeMessages
     /\ splitStringAtBlankLines(TextOf(Mem, n), 0) = null
     /\ Last(n) = 2
     /\ pcMultiple[Front(n)] = "returned"
     /\ res[Front(n) \o <<1>>].status = "done"

\* C4: after a failure with any other message translateOne has thrown that
\* message: it has returned no text, has started no translateMultiple and
\* has called the service once.
C4_OtherFailureThrown ==
  \A n \in DOMAIN res :
     (res[n].status = "error" /\ res[n].message \in OtherMessages) =>
        /\ pcOne[n] = "thrown"
        /\ result[n] = res[n].message
        /\ n \notin Frames
        /\ Len(calls[n]) = 1

\* a call has thrown "Rate limit reached" on a text that could have been split
C4_Witness ==
  \E n \in DOMAIN res :
     /\ res[n] = error("Rate limit reached")
     /\ pcOne[n] = "thrown"
     /\ splitStringAtBlankLines(TextOf(Mem, n), 0) # null

\* C5: once a translateOne call, at any depth, has thrown, main's
\* translateMultiple call has not returned and never does, main's callback
\* has received no done status, and when the call is over it has failed.
C5_FatalNeverPartial ==
  (\E n \in Ones : pcOne[n] = "thrown") =>
     /\ pcMultiple[<<>>] # "returned"
     /\ pcMain # "translated"
     /\ sink[<<>>].dones = 0
     /\ pcMain # "awaitMultiple" => pcMain = "failed"

\* a fragment two splits deep has thrown, every other translateOne call that
\* was made has returned, and main's call has failed
C5_Witness ==
  \E n \in Ones :
     /\ Len(n) = 3
     /\ pcOne[n] = "thrown"
     /\ \A m \in Ones : (m # n /\ \A k \in 1..Len(m) : SubSeq(n, 1, k) # m)
                            => pcOne[m] = "returned"
     /\ pcMain = "failed"

\* the number of calls of the service so far
TotalCalls == sumOver([n \in DOMAIN calls |-> Len(calls[n])], DOMAIN calls)

\* the number of blank-line boundaries of a text
Boundaries(text) ==
  Cardinality({i \in 1..(Len(text) - 1) : SubSeq(text, i, i + 1) = "\n\n"})

\* the steps a pending call on text can still cause: its own resumption and,
\* per blank-line boundary, two more resumptions and one join
Potential(text) == 3 * Boundaries(text) + 1

\* the steps the run can still take
Measure ==
  (MaxTokens - Streamed)
  + sumOver([n \in Ones |-> IF pcOne[n] = "callApi" THEN Potential(TextOf(Mem, n)) ELSE 0],
            Ones)
  + Cardinality({g \in Frames : pcMultiple[g] = "awaitAll"})
  + (IF pcMain = "start"
     THEN 2 + sumOver([i \in 1..Len(args) |-> Potential(args[i])], 1..Len(args))
     ELSE 0)

\* nothing is left to run: no call of the service is pending and no
\* translateMultiple frame has all its fragments returned and is still waiting
Quiescent ==
  /\ pcMain # "start"
  /\ \A n \in Ones : pcOne[n] # "callApi"
  /\ \A g \in Frames : pcMultiple[g] = "awaitAll" =>
        \E c \in Children(g) : pcOne[c] # "returned"

\* C6: with the size-limited service every run ends with main's
\* translateMultiple call returned: every step uses up some of a finite
\* measure, and a run with nothing left to do has returned.  No fragment is
\* split more often than its top-level fragment has blank-line boundaries,
\* and the service is called at most once per node of the split trees: at
\* most twice per boundary plus once per top-level fragment.
C6_LimitedServiceTerminates ==
  /\ [][Measure' < Measure]_vars
  /\ [](Measure >= 0)
  /\ [](Quiescent => pcMain = "translated")
  /\ [](\A n \in Ones : Len(n) - 1 <= Boundaries(args[n[1]]))
  /\ [](TotalCalls <= Len(args)
           + 2 * sumOver([i \in 1..Len(args) |-> Boundaries(args[i])], 1..Len(args)))

\* main's call has returned after a fragment was split twice, one piece was
\* translated and another, too long and unsplittable, was returned as it was
C6_Witness ==
  /\ pcMain = "translated"
  /\ \E n \in Ones : Len(n) = 3
  /\ \E n \in Ones : res[n].status = "done"
  /\ \E n \in Ones : res[n].status = "error" /\ n \notin Frames /\ pcOne[n] = "returned"

\* C7: when main's translateMultiple call has returned, main's callback has
\* received exactly one done status, it is the last status received and
\* carries the returned text, and every other status received is pending;
\* before that, whatever nested calls have finished, every status main's
\* callback has received is pending.
C7_DoneOnceAndLast ==
  /\ pcMain = "translated" =>
        /\ sink[<<>>].dones = 1
        /\ sink[<<>>].last = done(translatedText)
        /\ sink[<<>>].pendings = sink[<<>>].count - 1
  /\ pcMain # "translated" =>
        /\ sink[<<>>].dones = 0
        /\ sink[<<>>].pendings = sink[<<>>].count

\* main's call has returned after a nested translateMultiple call reported done
C7_Witness ==
  /\ pcMain = "translated"
  /\ \E g \in Frames : g # <<>> /\ pcMultiple[g] = "returned" /\ sink[g].dones = 1

\* the text of a rendering; an undefined rendering is joined as no text
Rendered(status) ==
  IF statusToText(status) = undefined THEN "" ELSE statusToText(status)[1]

\* render(slot[1]) + ", " + ... + render(slot[k]) over the slots of g
RECURSIVE Listed(_, _)
Listed(g, k) ==
  IF k = 1 THEN Rendered(statuses[g][1])
  ELSE Listed(g, k - 1) \o ", " \o Rendered(statuses[g][k])

\* the statuses frame g itself has passed to its onStatus
EmittedBy(g) == sink[g].count - (IF g = <<>> THEN 0 ELSE 1 + Len(streamed[g]))

\* the statuses the callbacks of the fragments of g have received
UpdatesOf(g) ==
  sumOver([i \in 1..Len(fragments[g]) |-> sink[g \o <<i>>].count], 1..Len(fragments[g]))

\* C8: a translateMultiple frame over N fragments keeps N slots, has emitted
\* one status per update its fragments' callbacks received (besides its
\* first pending and its final done), and the last of them is pending with
\* the bracketed, comma-separated renderings of the N slots as they are now.
C8_OneCompositePerUpdate ==
  \A g \in Frames :
     /\ Len(statuses[g]) = Len(fragments[g])
     /\ EmittedBy(g) = 1 + UpdatesOf(g) + (IF pcMultiple[g] = "returned" THEN 1 ELSE 0)
     /\ (UpdatesOf(g) > 0 /\ pcMultiple[g] # "returned") =>
           sink[g].last = pending("[" \o Listed(g, Len(fragments[g])) \o "]")

\* a frame over two fragments whose first fragment is split and whose second
\* fragment's callback has received a token
C8_Witness ==
  \E g \in Frames :
     /\ Len(fragments[g]) = 2
     /\ pcMultiple[g] = "awaitAll"
     /\ (g \o <<1>>) \in Frames
     /\ streamed[g \o <<2>>] # <<>>
     /\ sink[g].last = pending("[" \o Listed(g, 2) \o "]")

\* C9: every translateOne call emits pending("") first, and has emitted it
\* when it calls the service; while the call is pending and when it
\* succeeds directly, its callback has received that first status and one
\* pending status per streamed token, the last one with the last token,
\* and no done status.
C9_PendingFirstThenTokens ==
  \A n \in Ones :
     /\ firstOne[n] = pending("")
     /\ calls[n][1].emitted >= 1
     /\ (pcOne[n] = "callApi" \/ (n \in DOMAIN res /\ res[n].status = "done")) =>
           /\ sink[n].count = 1 + Len(streamed[n])
           /\ sink[n].pendings = sink[n].count
           /\ sink[n].dones = 0
           /\ streamed[n] # <<>> => sink[n].last = pending(streamed[n][Len(streamed[n])])

\* the hourglass, count times, as a composite lists it
RECURSIVE Hourglasses(_)
Hourglasses(count) ==
  IF count = 1 THEN hourglass ELSE Hourglasses(count - 1) \o ", " \o hourglass

\* C10: a translateMultiple frame has one slot per fragment, each slot holds
\* a pending, done or error status, its first emission was pending with an
\* empty token, and its first composite, emitted while the later slots had
\* received no update, listed one hourglass per fragment.
C10_SlotsStartPending ==
  \A g \in Frames :
     /\ Len(statuses[g]) = Len(fragments[g])
     /\ \A i \in 1..Len(statuses[g]) : statuses[g][i].status \in {"pending", "done", "error"}
     /\ firstMultiple[g][1] = pending("")
     /\ firstMultiple[g][2] = pending("[" \o Hourglasses(Len(fragments[g])) \o "]")

(***************************************************************************)
(* Properties of the retry-split                                           *)
(***************************************************************************)
\* splitStringAtBlankLines(text, 0) is null, or two fragments that joined
\* with "\n\n" give text
Bisects(text) ==
  LET splitResult == splitStringAtBlankLines(text, 0)
  IN \/ splitResult = null
     \/ /\ Len(splitResult) = 2
        /\ splitResult[1] \o "\n\n" \o splitResult[2] = text

\* every text of a few lines is bisected so
BisectsAll == \A text \in LineTexts(MaxParagraphs + 3) : Bisects(text)

\* C16: splitStringAtBlankLines(text, 0) is null or two fragments whose
\* join with "\n\n" is text, for every text of a few lines and for the text
\* of every translateOne; a translateOne that split its text called
\* translateMultiple on these two fragments; and with a service that answers
\* a text with the text, every translateOne that has returned has returned
\* its own text.
C16_BisectionRejoins ==
  /\ BisectsAll
  /\ \A n \in Ones :
        /\ Bisects(TextOf(Mem, n))
        /\ n \in Frames =>
              /\ fragments[n] = splitStringAtBlankLines(TextOf(Mem, n), 0)
              /\ Len(fragments[n]) = 2
        /\ (echo /\ pcOne[n] = "returned") => result[n] = TextOf(Mem, n)

\* a translateOne has returned after it split a text with two empty lines in
\* a row, of which one stayed in a half
C16_Witness ==
  \E n \in Ones :
     /\ n \in Frames
     /\ pcOne[n] = "returned"
     /\ includes(TextOf(Mem, n), "\n\n\n")
     /\ \E i \in 1..2 : includes(fragments[n][i], "\n")

(***************************************************************************)
(* Properties of the slots                                                 *)
(***************************************************************************)
\* C17: in every step and every translateMultiple frame, the statuses array
\* keeps its length, a slot whose callback was not called keeps its status,
\* and a slot whose callback was called holds the status that callback
\* received; so a slot holds what its own callback received last, or what
\* it was filled with.
C17_SlotWrittenByItsCallback ==
  /\ [][ \A g \in Frames \cap DOMAIN pcMultiple' :
            /\ Len(statuses'[g]) = Len(statuses[g])
            /\ \A i \in 1..Len(statuses[g]) :
                  IF sink'[g \o <<i>>].count = sink[g \o <<i>>].count
                  THEN statuses'[g][i] = statuses[g][i]
                  ELSE statuses'[g][i] = sink'[g \o <<i>>].last ]_vars
  /\ [](\A g \in Frames : \A i \in 1..Len(statuses[g]) :
          statuses[g][i] = IF sink[g \o <<i>>].count = 0 THEN newSlot
                           ELSE sink[g \o <<i>>].last)

\* in a frame of two fragments the first slot holds the composite of a
\* retry-split and the second the token streamed to the second fragment
C17_Witness ==
  \E g \in Frames :
     /\ Len(fragments[g]) = 2
     /\ pcOne[g \o <<1>>] = "awaitMultiple"
     /\ pcOne[g \o <<2>>] = "callApi"
     /\ streamed[g \o <<2>>] # <<>>
     /\ statuses[g][2] = pending(streamed[g \o <<2>>][Len(streamed[g \o <<2>>])])
     /\ statuses[g][1] = pending(composite(statuses[g \o <<1>>]))

\* the renderings of the slots of g, one entry per slot
Entries(g) == [k \in 1..Len(statuses[g]) |-> Rendered(statuses[g][k])]

\* C18: for the translateMultiple frame n that translateOne made for
\* fragment i of frame g: the callback of fragment i has received the first
\* status of translateOne, the tokens, and every status n emitted (a first
\* pending with an empty token, one composite per update of the slots of n,
\* and done when n returned); slot i of g holds the last of them; g keeps
\* one slot per fragment; while n has not returned slot i holds the
\* composite of n, and the last status g emitted lists one entry per slot
\* with entry i the rendering of that composite; and once n has returned,
\* so not later than translateOne does, slot i holds done with the text n
\* returned.
C18_ChildGroupInParentSlot ==
  \A n \in Frames \ {<<>>} :
     LET g == Front(n)
         i == Last(n)
     IN /\ Len(statuses[g]) = Len(fragments[g])
        /\ firstMultiple[n][1] = pending("")
        /\ sink[n].count = 1 + Len(streamed[n]) + 1 + UpdatesOf(n)
                             + (IF pcMultiple[n] = "returned" THEN 1 ELSE 0)
        /\ statuses[g][i] = sink[n].last
        /\ pcMultiple[n] # "returned" =>
              /\ statuses[g][i] = pending(composite(statuses[n]))
              /\ Entries(g)[i] = highVoltage \o " " \o composite(statuses[n])
              /\ pcMultiple[g] # "returned" =>
                    sink[g].last = pending("[" \o join(strings(Entries(g)), ", ") \o "]")
        /\ pcMultiple[n] = "returned" =>
              /\ statuses[g][i] = done(result[n])
              /\ Entries(g)[i] = checkMark
        /\ pcOne[n] = "returned" => pcMultiple[n] = "returned"

\* the group of the first of two fragments has returned while the second
\* fragment is with the service, and the last composite lists the check mark
C18_Witness ==
  \E n \in Frames \ {<<>>} :
     /\ Len(fragments[Front(n)]) = 2
     /\ Last(n) = 1
     /\ pcMultiple[n] = "returned"
     /\ pcOne[Front(n) \o <<2>>] = "callApi"
     /\ sink[Front(n)].last = pending("[" \o checkMark \o ", " \o Entries(Front(n))[2] \o "]")

(***************************************************************************)
(* Properties of the calls                                                 *)
(***************************************************************************)
\* m is a call made under the retry-split of n
Under(m, n) == Len(m) > Len(n) /\ SubSeq(m, 1, Len(n)) = n

\* C19: every translateOne has called the service once, on its own text,
\* whatever it did after; one that split its text has the two fragments of
\* the split as the texts of its two children, and no call made under it
\* was given its text.
C19_OneCallPerText ==
  \A n \in Ones :
     /\ Len(calls[n]) = 1
     /\ calls[n][1].text = TextOf(Mem, n)
     /\ n \in Frames =>
           /\ res[n].status = "error"
           /\ matchesSizeOrStream(res[n].message)
           /\ Children(n) = {n \o <<1>>, n \o <<2>>}
           /\ << calls[n \o <<1>>][1].text, calls[n \o <<2>>][1].text >>
                 = splitStringAtBlankLines(TextOf(Mem, n), 0)
           /\ \A m \in Ones : Under(m, n) =>
                 /\ calls[m][1].text # TextOf(Mem, n)
                 /\ Len(calls[m][1].text) < Len(TextOf(Mem, n))

\* a text failed for its size, its second half failed too, and every call
\* made under them has settled
C19_Witness ==
  \E n \in Ones :
     /\ n \in Frames
     /\ (n \o <<2>>) \in Frames
     /\ pcOne[n] = "returned"
     /\ TotalCalls >= 5

\* C20: every fragment of a translateMultiple frame has a translateOne that
\* has emitted its first status and called the service, from the step that
\* made the frame on, the call being made right after the first status; so
\* in every step in which a translateOne moves on, each of its siblings has
\* already called the service, and no call was held back for a sibling.
C20_AllLaunchedTogether ==
  /\ [](\A g \in Frames : \A i \in 1..Len(fragments[g]) :
          /\ (g \o <<i>>) \in Ones
          /\ firstOne[g \o <<i>>] = firstStatus
          /\ sink[g \o <<i>>].count >= 1
          /\ Len(calls[g \o <<i>>]) >= 1
          /\ calls[g \o <<i>>][1].emitted = 1)
  /\ [][ \A n \in Ones \cap DOMAIN pcOne' :
            pcOne'[n] # pcOne[n] =>
               \A c \in Children(Front(n)) :
                  c \in Ones /\ Len(calls[c]) >= 1 ]_vars

\* the second of two fragments has settled while the first is still with the
\* service
C20_Witness ==
  \E g \in Frames :
     /\ Len(fragments[g]) = 2
     /\ pcOne[g \o <<1>>] = "callApi"
     /\ pcOne[g \o <<2>>] = "returned"
     /\ overtaken[g]

(***************************************************************************)
(* Properties of main                                                      *)
(***************************************************************************)
\* the array ./dones.json holds
Ledger == JSONparse(donesJson)

IsPrefix(a, b) == Len(a) <= Len(b) /\ SubSeq(b, 1, Len(a)) = a

\* every call of translateMultiple and of translateOne made for the current
\* document has returned
AllReturned ==
  /\ <<>> \in Frames
  /\ fragments[<<>>] = args
  /\ \A g \in Frames : pcMultiple[g] = "returned"
  /\ \A n \in Ones : pcOne[n] = "returned"

\* C11: the file of a document, dones and ./dones.json change only in a
\* state where translateMultiple and every translateOne of that document
\* have returned; and when main has failed, the file of the current document
\* has not been written, holds the document that was read, and is in neither
\* dones nor ./dones.json.
C11_WriteOnlyAfterSuccess ==
  /\ [][ (pcMain # "main" /\ (disk' # disk \/ writes' # writes \/ dones' # dones
                                \/ donesJson' # donesJson))
           => (AllReturned /\ pcMain \in {"translated", "appendFile", "writeDones"}) ]_vars
  /\ [](pcMain = "failed" =>
          /\ writes[filePath] = 0
          /\ disk[filePath] = markdown
          /\ ~ arrayIncludes(dones, filePath)
          /\ ~ arrayIncludes(Ledger, filePath))

\* main has failed on a document of which one fragment was translated
C11_Witness ==
  /\ pcMain = "failed"
  /\ <<>> \in Frames
  /\ pcMultiple[<<>>] = "thrown"
  /\ \E n \in Ones : pcOne[n] = "returned"
  /\ writes[filePath] = 0

\* C12 (index.ts): dones and ./dones.json only grow at their end; a file
\* that ./dones.json lists is never written, and no step of main on it calls
\* the service; a path enters dones and ./dones.json only when its file has
\* been written and appended to; and when main has failed, every file before
\* the current one is in ./dones.json.
C12_LedgerAppendOnly ==
  /\ [][ /\ IsPrefix(dones, dones')
         /\ IsPrefix(Ledger, Ledger')
         /\ \A i \in 1..Len(files) :
               arrayIncludes(Ledger, files[i]) =>
                  /\ disk'[files[i]] = disk[files[i]]
                  /\ writes'[files[i]] = writes[files[i]]
                  /\ (fileIndex = i => calls' = calls)
         /\ \A i \in 1..Len(files) :
               /\ (pcMain # "main" /\ arrayIncludes(dones', files[i])
                     /\ ~ arrayIncludes(dones, files[i])) => writes'[files[i]] = 2
               /\ (arrayIncludes(Ledger', files[i]) /\ ~ arrayIncludes(Ledger, files[i]))
                     => writes[files[i]] = 2 ]_vars
  /\ [](pcMain = "failed" =>
          \A i \in 1..(fileIndex - 1) : arrayIncludes(Ledger, files[i]))

\* main has failed on the second file after it wrote the first and saved it
C12_Witness ==
  /\ entry = "index.ts"
  /\ pcMain = "failed"
  /\ fileIndex = 2
  /\ writes["one.md"] = 2
  /\ Ledger = << "one.md" >>

\* C13: when the initial split has returned null, main does not fail.
C13_NullSplitPropagated ==
  ~ (pcMain = "failed" /\ args = null)

\* main has written the result to the file and nothing after it
JustWritten ==
  \/ pcMain = "appendFile"
  \/ entry = "part_000" /\ pcMain = "exit" /\ writes[filePath] = 1

\* the documents made of at most n pieces: a letter, a line end, a fence,
\* and a text that reads like the marker of id 0
RECURSIVE Pieced(_)
Pieced(n) ==
  IF n = 0 THEN {""}
  ELSE Pieced(n - 1) \cup {d \o piece : d \in Pieced(n - 1),
                                        piece \in {"a", "\n", fence, marker(0)}}

\* replaceCodeBlocks and then restoreCodeBlocks give every such document back
RoundTrips ==
  \A d \in Pieced(MaxLength + 2) :
     LET replaced == replaceCodeBlocks(d)
     IN /\ restoreCodeBlocks(replaced.output, replaced.codeBlocks) = d
        /\ Len(codeRegions(replaced.output, 1)) = 0

\* C15: the code blocks taken out of a document, put back into the text
\* they were taken from, give the document, for the document main has read
\* and for every document of a few pieces; and when the
\* service answers every text with the text, the file main has written holds
\* the document followed by the line ends main adds, so every code block is
\* in it as it was.
C15_ShieldRoundTrip ==
  /\ RoundTrips
  /\ pcMain \notin {"main", "loop"} =>
        /\ replaceCodeBlocks(markdown).output = replacedMd
        /\ replaceCodeBlocks(markdown).codeBlocks = codeBlocks
        /\ restoreCodeBlocks(replacedMd, codeBlocks) = markdown
        /\ Len(codeRegions(replacedMd, 1)) = 0
  /\ (echo /\ JustWritten) =>
        /\ disk[filePath] = markdown \o (IF entry = "index.ts" THEN "\n\n\n" ELSE "\n")
        /\ \A k \in 1..Len(codeBlocks) :
              includes(disk[filePath], codeBlocks[k].originalText)

\* main has written a document of two code blocks that went to the service
\* as one fragment and then as two
C15_Witness ==
  /\ echo
  /\ JustWritten
  /\ Len(codeBlocks) = 2
  /\ <<1>> \in Frames
  /\ codeBlocks[1].originalText # codeBlocks[2].originalText

(***************************************************************************)
(* Properties of a slot over time                                          *)
(***************************************************************************)
Terminal(status) == status.status \in {"done", "error"}

\* C21: in every step and for every slot of every translateMultiple frame:
\* a slot that holds done or error keeps its value; a slot comes to hold done
\* or error from pending only; and a slot that holds pending holds pending,
\* done or error after the step.
C21_SlotStateMachine ==
  [][\A g \in Frames : \A k \in 1..Len(statuses[g]) :
       LET old == statuses[g][k]
           new == statuses'[g][k]
       IN /\ Terminal(old) => new = old
          /\ Terminal(new) /\ new # old => old.status = "pending"
          /\ old.status = "pending" => new.status \in {"pending", "done", "error"}]_vars

\* the retry-split group of the first fragment has finished and its slot
\* holds done, while the service streams tokens to the second fragment
C21_Witness ==
  /\ <<>> \in Frames
  /\ Len(statuses[<<>>]) = 2
  /\ statuses[<<>>][1].status = "done"
  /\ pcMultiple[<<1>>] = "returned"
  /\ pcOne[<<2>>] = "callApi"
  /\ Len(streamed[<<2>>]) > 0
  /\ statuses[<<>>][2].status = "pending"

(***************************************************************************)
(* Properties of the line main prints                                      *)
(***************************************************************************)
SingleLine(text) == ~ includes(text, "\n")

\* the line printStatus prints for a status
Line(status) == statusToText(status)[1]

\* the line of a pending status is the glyph alone, or the glyph, a space
\* and the token with a space for each of its line ends
Flattened(status) ==
  /\ SingleLine(Line(status))
  /\ Line(status) = IF status.lastToken = "" THEN hourglass
                    ELSE highVoltage \o " " \o replaceAll(status.lastToken, "\n", " ")

\* statuses over tokens and messages of at most one character
ShortStatuses ==
  {pending(t) : t \in TextsUpTo(1)} \cup {done(t) : t \in TextsUpTo(1)}
    \cup {error(m) : m \in TextsUpTo(1)}

\* the composites of two slots, and the composites with such a composite in
\* their first slot; a slot can hold a token or a message with a line end
Composites ==
  {composite(<< a, b >>) : a \in Statuses, b \in ShortStatuses}
    \cup {composite(<< pending(composite(<< a, b >>)), c >>) :
            a \in ShortStatuses, b \in ShortStatuses, c \in ShortStatuses}

FlattensAll == \A token \in Composites : Flattened(pending(token))

\* C22: the line main prints for a pending status has no line end in it and
\* is the glyph followed by the token with a space for every line end: for
\* every status main's callback receives and every status a slot holds in a
\* run, where tokens with a line end are streamed at every depth, and for
\* every composite of slots that hold tokens or error messages with line ends.
C22_PendingLineIsOneLine ==
  /\ FlattensAll
  /\ sink[<<>>].last.status = "pending" => Flattened(sink[<<>>].last)
  /\ \A g \in Frames : \A k \in 1..Len(statuses[g]) :
        statuses[g][k].status = "pending" => Flattened(statuses[g][k])

\* main has printed the composite of a frame whose first slot holds the
\* composite of a retry-split, in which a token with a line end was streamed
C22_Witness ==
  /\ sink[<<>>].last.status = "pending"
  /\ <<1>> \in Frames
  /\ Len(streamed[<<1, 1>>]) > 0
  /\ includes(streamed[<<1, 1>>][1], "\n")
  /\ statuses[<<1>>][1] = pending(streamed[<<1, 1>>][1])
  /\ includes(sink[<<>>].last.lastToken, highVoltage \o " [" \o highVoltage \o " Bon jour")

(***************************************************************************)
(* Properties of the whole split tree                                      *)
(***************************************************************************)
\* the translateOne calls under frame g that made no translateMultiple call,
\* from left to right
RECURSIVE Leaves(_)
RECURSIVE LeavesFrom(_, _)
LeavesFrom(g, index) ==
  IF index > Len(fragments[g]) THEN <<>>
  ELSE (IF g \o <<index>> \in Frames THEN Leaves(g \o <<index>>)
        ELSE << g \o <<index>> >>)
         \o LeavesFrom(g, index + 1)
Leaves(g) == LeavesFrom(g, 1)

\* C23: when main's translateMultiple call has returned, the text it returned
\* is the outcomes of the leaves of the split tree, from left to right, each
\* once, with an empty line between them; the texts of the leaves, in the
\* same order, are the fragments main passed; and the outcome of a leaf is
\* the translation of its text, or its text when the service failed on it.
C23_LeavesInDocumentOrder ==
  (<<>> \in Frames /\ pcMultiple[<<>>] = "returned") =>
    LET leaves == Leaves(<<>>)
    IN /\ result[<<>>] = join([i \in 1..Len(leaves) |-> Str(result[leaves[i]])], "\n\n")
       /\ join(strings(args), "\n\n")
            = join([i \in 1..Len(leaves) |-> Str(TextOf(Mem, leaves[i]))], "\n\n")
       /\ \A i \in 1..Len(leaves) :
            result[leaves[i]] \in {Translation(TextOf(Mem, leaves[i])),
                                   TextOf(Mem, leaves[i])}

\* main's call has returned over a tree of three leaves, two of them at the
\* second level of a retry-split, where a fragment of the top level and a
\* half of a split each settled before the one to its left
C23_Witness ==
  /\ <<>> \in Frames
  /\ pcMultiple[<<>>] = "returned"
  /\ Len(Leaves(<<>>)) = 3
  /\ \E n \in Frames : Len(n) = 1 /\ overtaken[n]
  /\ overtaken[<<>>]

(***************************************************************************)
(* Properties of a settled call                                            *)
(***************************************************************************)
\* C24: in every step, the callback of a translateMultiple call that has
\* returned or thrown receives nothing.
C24_SettledSinkSilent ==
  [][\A g \in Frames :
       pcMultiple[g] \in {"returned", "thrown"} => sink'[g] = sink[g]]_vars

(***************************************************************************)
(* Properties of statusToText                                              *)
(***************************************************************************)
\* C14: statusToText returns a string that is not empty for every status of
\* the three variants: the hourglass for pending with an empty token; the
\* high voltage sign, a space and the token as one line shows it (the token
\* itself when it has no newline) for pending with any other token; the
\* check mark for done; the cross mark, a space and the message for error.
\* pending("") and pending("x") are rendered differently.
C14_RenderTotal ==
  /\ statusToText(pending("")) # statusToText(pending("x"))
  /\ answer # <<>> =>
       /\ answer[1] # undefined
       /\ Len(answer[1][1]) > 0
       /\ CASE probe.status = "pending" /\ probe.lastToken = "" ->
                 answer[1][1] = hourglass
            [] probe.status = "pending" /\ probe.lastToken # "" ->
                 /\ answer[1][1] = highVoltage \o " " \o replaceAll(probe.lastToken, "\n", " ")
                 /\ ~ includes(probe.lastToken, "\n") =>
                       answer[1][1] = highVoltage \o " " \o probe.lastToken
            [] probe.status = "done" -> answer[1][1] = checkMark
            [] probe.status = "error" -> answer[1][1] = crossMark \o " " \o probe.message

\* statusToText has been called on a pending status whose token has a newline
C14_Witness ==
  /\ answer # <<>>
  /\ probe.status = "pending"
  /\ includes(probe.lastToken, "\n")
  /\ includes(probe.lastToken, "x")
====
